---- MODULE Spec2Model ----
(***************************************************************************)
(* Model of fastcdc-diff: signatures (src/src/signature.rs), the delta     *)
(* planner and patch codec (src/src/diff.rs) and the local and remote      *)
(* reconstruction engines (src/src/apply.rs).                              *)
(*                                                                         *)
(* Files are sequences of bytes.  The FastCDC chunker and the BLAKE3       *)
(* hasher are external crates: a file is given by the sequence of chunk    *)
(* contents the chunker cuts it into, and the hash is an injective         *)
(* function of a chunk's content.                                          *)
(***************************************************************************)
EXTENDS Integers, Sequences, FiniteSets, TLC

\* ---------------------------------------------------------------- bounds
MaxSrcChunks == 2
MaxTgtChunks == 3
MaxSigChunks == 2
MaxLen == 2
MaxCut == 17

\* ------------------------------------------------------ program constants
VERSION == 0
DEFAULT_MIN_SIZE == 4096
DEFAULT_AVG_SIZE == 16384
DEFAULT_MAX_SIZE == 65535

\* Chunk contents the chunker can cut (bytes 1 and 2).
Contents == {<<1>>, <<2>>, <<1, 2>>}

\* Version bytes a stored signature or a patch stream can start with.
Versions == {VERSION, 255}

\* ---------------------------------------------------------------- helpers
Min(x, y) == IF x < y THEN x ELSE y

SeqsUpTo(S, n) == UNION {[1..k -> S] : k \in 0..n}

RECURSIVE Flatten(_)
Flatten(chunks) ==
  IF chunks = <<>> THEN <<>> ELSE Head(chunks) \o Flatten(Tail(chunks))

RECURSIVE SumLen(_)
SumLen(lens) ==
  IF lens = <<>> THEN 0 ELSE Head(lens) + SumLen(Tail(lens))

\* n.to_be_bytes() for a w-byte unsigned integer
RECURSIVE to_be_bytes(_, _)
to_be_bytes(n, w) ==
  IF w = 0 THEN <<>> ELSE Append(to_be_bytes(n \div 256, w - 1), n % 256)

\* uN::from_be_bytes(bytes)
RECURSIVE from_be_bytes(_)
from_be_bytes(bytes) ==
  IF bytes = <<>> THEN 0
  ELSE from_be_bytes(SubSeq(bytes, 1, Len(bytes) - 1)) * 256 + bytes[Len(bytes)]

\* seek(SeekFrom::Start(offset)) then take(size) copied to the end of the
\* reader: the bytes of file at [offset, offset+size), cut at end of file.
ReadAt(file, offset, size) ==
  IF offset >= Len(file) \/ size = 0 THEN <<>>
  ELSE SubSeq(file, offset + 1, Min(offset + size, Len(file)))

\* blake3::hash(&chunk.data): collision resistant, modelled as injective on
\* contents made of non-zero bytes.
RECURSIVE Hash(_)
Hash(data) ==
  IF data = <<>> THEN 0 ELSE Head(data) + 256 * Hash(Tail(data))

\* ------------------------------------------------------------- signatures
Chunk(hash, offset, length) ==
  [hash |-> hash, offset |-> offset, length |-> length]

\* impl PartialEq for Chunk
ChunkEq(c, d) == c.hash = d.hash /\ c.length = d.length

Signature(version, min_size, avg_size, max_size, chunks) ==
  [version |-> version, min_size |-> min_size, avg_size |-> avg_size,
   max_size |-> max_size, chunks |-> chunks]

EmptySignature == Signature(VERSION, 0, 0, 0, <<>>)

\* Signature::calculate over the chunks the chunker yields.
Calculate(data, min_size, avg_size, max_size) ==
  Signature(VERSION, min_size, avg_size, max_size,
    [i \in 1..Len(data) |->
       Chunk(Hash(data[i]),
             SumLen([j \in 1..(i - 1) |-> Len(data[j])]),
             Len(data[i]))])

\* Signature::write
SerializeChunkSwapped(chunk) ==
  to_be_bytes(chunk.hash, 32) \o to_be_bytes(chunk.length, 8)
    \o to_be_bytes(chunk.offset, 8)

SerializeChunk(chunk) ==
  to_be_bytes(chunk.hash, 32) \o to_be_bytes(chunk.offset, 8)
    \o to_be_bytes(chunk.length, 8)

RECURSIVE SerializeChunks(_)
SerializeChunks(chunks) ==
  IF chunks = <<>> THEN <<>>
  ELSE SerializeChunk(Head(chunks)) \o SerializeChunks(Tail(chunks))

SignatureWrite(sig) ==
  <<sig.version>> \o to_be_bytes(sig.min_size, 4) \o to_be_bytes(sig.avg_size, 4)
    \o to_be_bytes(sig.max_size, 4) \o to_be_bytes(Len(sig.chunks), 8)
    \o SerializeChunks(sig.chunks)

\* array_ref![vec, start, len]
ArrayRef(vec, start, len) == SubSeq(vec, start + 1, start + len)

\* Signature::load: ok = FALSE stands for the panic of an out-of-bounds
\* array_ref; otherwise the signature is returned, whatever its version.
LoadPanics(vec) ==
  \/ Len(vec) < 21
  \/ Len(vec) < 21 + 48 * from_be_bytes(ArrayRef(vec, 13, 8))

SignatureLoad(vec) ==
  IF LoadPanics(vec) THEN [ok |-> FALSE, sig |-> EmptySignature]
  ELSE
    LET version == vec[1]
        min_size == from_be_bytes(ArrayRef(vec, 1, 4))
        avg_size == from_be_bytes(ArrayRef(vec, 5, 4))
        max_size == from_be_bytes(ArrayRef(vec, 9, 4))
        numchunks == from_be_bytes(ArrayRef(vec, 13, 8))
        chunks == [i \in 1..numchunks |->
                     LET offset == 21 + 48 * (i - 1) IN
                       Chunk(from_be_bytes(ArrayRef(vec, offset, 32)),
                             from_be_bytes(ArrayRef(vec, offset + 32, 8)),
                             from_be_bytes(ArrayRef(vec, offset + 40, 8)))]
    IN [ok |-> TRUE,
        sig |-> Signature(version, min_size, avg_size, max_size, chunks)]

\* ---------------------------------------------------------- delta planner
Op(op, offset, size) == [op |-> op, offset |-> offset, size |-> size]

\* original_chunks: HashMap<Hash, &Chunk>, filled with entry().or_insert():
\* the first chunk of a with the given hash.
HasKey(a, hash) == \E i \in 1..Len(a.chunks) : a.chunks[i].hash = hash

Lookup(a, hash) ==
  a.chunks[CHOOSE i \in 1..Len(a.chunks) :
             /\ a.chunks[i].hash = hash
             /\ \A j \in 1..(i - 1) : a.chunks[j].hash # hash]

\* current_offset + current_length == chunk.offset: the found chunk
\* continues the current Copy run in the source.
CopyContinuesNever(st, chunk) == FALSE

CopyContinuesAlways(st, chunk) == TRUE

CopyContinues(st, chunk) ==
  st.current_offset + st.current_length = chunk.offset

\* current_offset + current_length == new_chunk.offset: the missing chunk
\* continues the current Insert run in the target.
InsertContinues(st, new_chunk) ==
  st.current_offset + st.current_length = new_chunk.offset

\* One iteration of the loop over b.chunks.
DiffStep(a, st, new_chunk) ==
  IF HasKey(a, new_chunk.hash)
  THEN LET chunk == Lookup(a, new_chunk.hash) IN
    IF st.current_op = "Copy"
    THEN IF CopyContinues(st, chunk)
         THEN [st EXCEPT !.current_length = @ + chunk.length]
         ELSE [st EXCEPT
                 !.diff = IF st.current_length > 0
                          THEN Append(@, Op("Copy", st.current_offset, st.current_length))
                          ELSE @,
                 !.current_offset = chunk.offset,
                 !.current_length = chunk.length]
    ELSE [st EXCEPT
            !.diff = IF st.current_length > 0
                     THEN Append(@, Op("Insert", st.current_offset, st.current_length))
                     ELSE @,
            !.current_offset = IF st.current_length > 0 THEN chunk.offset ELSE @,
            !.current_length = chunk.length,
            !.current_op = "Copy"]
  ELSE
    IF st.current_op = "Insert"
    THEN IF InsertContinues(st, new_chunk)
         THEN [st EXCEPT !.current_length = @ + new_chunk.length]
         ELSE [st EXCEPT
                 !.diff = IF st.current_length > 0
                          THEN Append(@, Op("Insert", st.current_offset, st.current_length))
                          ELSE @,
                 !.current_offset = new_chunk.offset,
                 !.current_length = new_chunk.length]
    ELSE [st EXCEPT
            !.diff = IF st.current_length > 0
                     THEN Append(@, Op("Copy", st.current_offset, st.current_length))
                     ELSE @,
            !.current_offset = IF st.current_length > 0 THEN new_chunk.offset ELSE @,
            !.current_length = new_chunk.length,
            !.current_op = "Insert"]

RECURSIVE DiffWalk(_, _, _)
DiffWalk(a, st, chunks) ==
  IF chunks = <<>> THEN st
  ELSE DiffWalk(a, DiffStep(a, st, Head(chunks)), Tail(chunks))

\* The push after the loop.
DiffFinish(st) ==
  Append(st.diff, Op(st.current_op, st.current_offset, st.current_length))

diff_signatures(a, b) ==
  DiffFinish(DiffWalk(a,
    [diff |-> <<>>, current_op |-> "Copy", current_length |-> 0,
     current_offset |-> 0],
    b.chunks))

\* ------------------------------------------------------------ patch codec
to_u8(op) == IF op = "Copy" THEN 0 ELSE 1

serialize_copy(offset, size) ==
  <<to_u8("Copy")>> \o to_be_bytes(offset, 8) \o to_be_bytes(size, 8)

serialize_insert(offset, size, b_data) ==
  <<to_u8("Insert")>> \o to_be_bytes(size, 8) \o ReadAt(b_data, offset, size)

RECURSIVE SerializeOps(_, _)
SerializeOps(ops, b_data) ==
  IF ops = <<>> THEN <<>>
  ELSE LET op == Head(ops) IN
    (IF op.op = "Copy" THEN serialize_copy(op.offset, op.size)
     ELSE serialize_insert(op.offset, op.size, b_data))
    \o SerializeOps(Tail(ops), b_data)

write_diff_between(a, b, b_data) ==
  <<a.version>> \o SerializeOps(diff_signatures(a, b), b_data)

\* ------------------------------------------------------------ local apply
ApplyResult(result, dest, source_ops) ==
  [result |-> result, dest |-> dest, source_ops |-> source_ops]

\* The loop of apply: pos bytes of the patch stream have been consumed.
RECURSIVE ApplyLoop(_, _, _, _, _)
ApplyLoop(stream, pos, source, dest, source_ops) ==
  IF pos >= Len(stream)
  THEN \* read_exact of the tag fails with UnexpectedEof: break, Ok(())
       ApplyResult("ok", dest, source_ops)
  ELSE LET tag == stream[pos + 1] IN
    IF tag = 0
    THEN IF Len(stream) < pos + 17
         THEN ApplyResult("io_error", dest, source_ops)
         ELSE LET offset == from_be_bytes(SubSeq(stream, pos + 2, pos + 9))
                  size == from_be_bytes(SubSeq(stream, pos + 10, pos + 17))
              IN ApplyLoop(stream, pos + 17, source,
                           dest \o ReadAt(source, offset, size), source_ops + 1)
    ELSE IF tag = 1
    THEN IF Len(stream) < pos + 9
         THEN ApplyResult("io_error", dest, source_ops)
         ELSE LET size == from_be_bytes(SubSeq(stream, pos + 2, pos + 9))
                  chunk == ReadAt(stream, pos + 9, size)
              IN ApplyLoop(stream, pos + 9 + Len(chunk), source,
                           dest \o chunk, source_ops)
    ELSE \* Operation::from_u8: unimplemented!()
         ApplyResult("panic", dest, source_ops)

applyNoVersionGate(stream, source) ==
  IF stream = <<>> THEN ApplyResult("io_error", <<>>, 0)
  ELSE ApplyLoop(stream, 1, source, <<>>, 0)

apply(stream, source) ==
  IF stream = <<>> THEN ApplyResult("io_error", <<>>, 0)
  ELSE IF stream[1] # VERSION THEN ApplyResult("version_mismatch", <<>>, 0)
  ELSE ApplyLoop(stream, 1, source, <<>>, 0)

\* ------------------------------------------------------------ HTTP origin
\* Status 0 stands for a request whose send() failed.
Statuses == {206, 200, 404, 0}

ErrorBody == <<52, 48, 52>>

\* What the origin serving file answers to Range: bytes=start-end.
ResponseBody(status, file, range) ==
  IF status = 206 THEN ReadAt(file, range[1], range[2] - range[1] + 1)
  ELSE IF status = 200 THEN file
  ELSE IF status = 0 THEN <<>>
  ELSE ErrorBody

\* byte_ranges.push((d.1, d.1 + d.2 - 1))
RangeOfExclusive(d) == <<d.offset, d.offset + d.size>>

RangeOf(d) == <<d.offset, d.offset + d.size - 1>>

\* First pass of apply_from_http.
RECURSIVE ByteRanges(_)
ByteRanges(ops) ==
  IF ops = <<>> THEN <<>>
  ELSE LET d == Head(ops) IN
    (IF d.op = "Insert" THEN <<RangeOf(d)>> ELSE <<>>)
    \o ByteRanges(Tail(ops))

PendingTask == [state |-> "pending", status |-> 0, body |-> <<>>]

\* for task in tasks: the task awaited after n tasks have been awaited, given
\* the order in which the requests completed.
NextTaskCompleted(n, order) ==
  IF n < Len(order) THEN order[n + 1] ELSE n + 1

NextTask(n, order) == n + 1

\* ------------------------------------------------------------------ state
VARIABLES
  srcChunks,    \* the source file, as the chunker cuts it
  tgtChunks,    \* the target file, as the chunker cuts it
  stored,       \* bytes of a stored source signature
  a, b,         \* source and target signature
  pc,           \* position in the pipeline
  diff,         \* operation list of the planner
  patch,        \* patch written by write_diff_between
  stream,       \* patch stream handed to apply
  result,       \* outcome of apply / apply_from_http
  dest,         \* bytes written to dest
  source_ops,   \* number of seek+read operations made on source
  byte_ranges,  \* ranges requested from the origin, in request order
  tasks,        \* spawned requests
  completed,    \* indices of the requests in the order they completed
  awaited,      \* number of tasks awaited so far
  remote_data,  \* the scratch file
  remote_pos,   \* cursor of the scratch file
  op_index      \* operations executed by the second pass

vars == <<srcChunks, tgtChunks, stored, a, b, pc, diff, patch, stream, result,
          dest, source_ops, byte_ranges, tasks, completed, awaited,
          remote_data, remote_pos, op_index>>

source == Flatten(srcChunks)
target == Flatten(tgtChunks)

\* Signatures a stored signature file can hold: any version byte, any
\* hash/length pairs, offsets contiguous.
StoredChunks(hl) ==
  [i \in 1..Len(hl) |->
     Chunk(hl[i][1], SumLen([j \in 1..(i - 1) |-> hl[j][2]]), hl[i][2])]

StoredSignatures ==
  {Signature(v, DEFAULT_MIN_SIZE, DEFAULT_AVG_SIZE, DEFAULT_MAX_SIZE, StoredChunks(hl)) :
     v \in Versions,
     hl \in SeqsUpTo({Hash(c) : c \in Contents} \X (1..MaxLen), MaxSigChunks)}

\* Patch streams apply can be handed: the patch as written, the patch cut
\* short, or the patch under another version byte.
PatchStreams(p) ==
  {SubSeq(p, 1, Len(p) - cut) : cut \in 0..Min(MaxCut, Len(p))}
    \cup {<<v>> \o Tail(p) : v \in Versions}

Idle ==
  /\ a = EmptySignature /\ b = EmptySignature
  /\ diff = <<>> /\ patch = <<>> /\ stream = <<>>
  /\ result = "none" /\ dest = <<>> /\ source_ops = 0
  /\ byte_ranges = <<>> /\ tasks = <<>> /\ completed = <<>> /\ awaited = 0
  /\ remote_data = <<>> /\ remote_pos = 0 /\ op_index = 0

\* Source and target files are both at hand (diff, apply, pull).
Init ==
  /\ srcChunks \in SeqsUpTo(Contents, MaxSrcChunks)
  /\ tgtChunks \in SeqsUpTo(Contents, MaxTgtChunks)
  /\ stored = <<>>
  /\ pc = "files"
  /\ Idle

\* The source is known by a stored signature only (diff-using-source-signature).
InitStored ==
  /\ srcChunks = <<>>
  /\ tgtChunks \in SeqsUpTo(Contents, MaxTgtChunks)
  /\ stored \in {SignatureWrite(sig) : sig \in StoredSignatures}
  /\ pc = "stored"
  /\ Idle

\* Signatures handed to Signature::write: the stored ones and signatures
\* whose hash, offset and length fill more than one byte.
WideValues == {0, 255, 256, 65536}

WrittenSignatures ==
  StoredSignatures \cup
  {Signature(v, 1024, 1024, 2048, <<Chunk(h, o, l)>>) :
     v \in Versions, h \in {0, 257, 65539}, o \in WideValues, l \in WideValues}

\* A signature is at hand, to be written and loaded again.
InitRoundTrip ==
  /\ srcChunks = <<>> /\ tgtChunks = <<>> /\ stored = <<>>
  /\ a \in WrittenSignatures
  /\ b = EmptySignature
  /\ pc = "built"
  /\ diff = <<>> /\ patch = <<>> /\ stream = <<>>
  /\ result = "none" /\ dest = <<>> /\ source_ops = 0
  /\ byte_ranges = <<>> /\ tasks = <<>> /\ completed = <<>> /\ awaited = 0
  /\ remote_data = <<>> /\ remote_pos = 0 /\ op_index = 0

httpVars == <<byte_ranges, tasks, completed, awaited, remote_data, remote_pos, op_index>>
applyVars == <<stream, result, dest, source_ops>>
inputVars == <<srcChunks, tgtChunks, stored>>

\* ---------------------------------------------------------------- actions
\* Signature::calculate on both files.
CalculateSignatures ==
  /\ pc = "files"
  /\ a' = Calculate(srcChunks, DEFAULT_MIN_SIZE, DEFAULT_AVG_SIZE, DEFAULT_MAX_SIZE)
  /\ b' = Calculate(tgtChunks, DEFAULT_MIN_SIZE, DEFAULT_AVG_SIZE, DEFAULT_MAX_SIZE)
  /\ pc' = "signed"
  /\ UNCHANGED <<inputVars, diff, patch, applyVars, httpVars>>

\* Signature::load on the stored source signature, Signature::calculate on
\* the target with the stored chunking parameters.
LoadSignature ==
  /\ pc = "stored"
  /\ LET loaded == SignatureLoad(stored) IN
       IF loaded.ok
       THEN /\ a' = loaded.sig
            /\ b' = Calculate(tgtChunks, loaded.sig.min_size, loaded.sig.avg_size,
                              loaded.sig.max_size)
            /\ pc' = "signed"
            /\ UNCHANGED result
       ELSE /\ pc' = "done"
            /\ result' = "panic"
            /\ UNCHANGED <<a, b>>
  /\ UNCHANGED <<inputVars, diff, patch, stream, dest, source_ops, httpVars>>

\* a.write(&mut stored)
WriteSignature ==
  /\ pc = "built"
  /\ stored' = SignatureWrite(a)
  /\ pc' = "written"
  /\ UNCHANGED <<srcChunks, tgtChunks, a, b, diff, patch, applyVars, httpVars>>

\* Signature::load(&stored), kept in b
ReloadSignature ==
  /\ pc = "written"
  /\ LET loaded == SignatureLoad(stored) IN
       /\ b' = loaded.sig
       /\ result' = IF loaded.ok THEN "ok" ELSE "panic"
  /\ pc' = "reloaded"
  /\ UNCHANGED <<inputVars, a, diff, patch, stream, dest, source_ops, httpVars>>

\* write_diff_between(a, b, target, patch)
WriteDiffBetween ==
  /\ pc = "signed"
  /\ diff' = diff_signatures(a, b)
  /\ patch' = write_diff_between(a, b, target)
  /\ pc' = "patched"
  /\ UNCHANGED <<inputVars, a, b, applyVars, httpVars>>

\* apply(stream, source, dest)
Apply ==
  /\ pc = "patched"
  /\ \E s \in PatchStreams(patch) :
       LET r == apply(s, source) IN
         /\ stream' = s
         /\ result' = r.result
         /\ dest' = r.dest
         /\ source_ops' = r.source_ops
  /\ pc' = "applied"
  /\ UNCHANGED <<inputVars, a, b, diff, patch, httpVars>>

\* Pull mode: the planner runs on the receiver.
DiffSignatures ==
  /\ pc = "signed"
  /\ diff' = diff_signatures(a, b)
  /\ pc' = "planned"
  /\ UNCHANGED <<inputVars, a, b, patch, applyVars, httpVars>>

\* apply_from_http, first pass: collect the ranges and spawn one task each.
HttpSpawn ==
  /\ pc = "planned"
  /\ byte_ranges' = ByteRanges(diff)
  /\ tasks' = [k \in 1..Len(ByteRanges(diff)) |-> PendingTask]
  /\ pc' = "fetching"
  /\ UNCHANGED <<inputVars, a, b, diff, patch, applyVars, completed, awaited,
                 remote_data, remote_pos, op_index>>

\* A spawned request completes: the origin answers, or send() fails.
HttpRespond(k) ==
  /\ pc \in {"fetching", "writing", "pulled"}
  /\ tasks[k].state = "pending"
  /\ \E status \in Statuses :
       tasks' = [tasks EXCEPT ![k] =
                   [state |-> "done", status |-> status,
                    body |-> ResponseBody(status, target, byte_ranges[k])]]
  /\ completed' = Append(completed, k)
  /\ UNCHANGED <<inputVars, a, b, pc, diff, patch, applyVars, byte_ranges,
                 awaited, remote_data, remote_pos, op_index>>

\* task.await?? and the drain of the response body into the scratch file,
\* for the next task in spawn order.
HttpAwait ==
  /\ pc = "fetching"
  /\ awaited < Len(tasks)
  /\ LET task == tasks[NextTask(awaited, completed)] IN
       /\ task.state = "done"
       /\ IF task.status = 0
          THEN /\ result' = "http_error"
               /\ pc' = "pulled"
               /\ UNCHANGED <<awaited, remote_data>>
          ELSE /\ remote_data' = remote_data \o task.body
               /\ awaited' = awaited + 1
               /\ UNCHANGED <<result, pc>>
  /\ UNCHANGED <<inputVars, a, b, diff, patch, stream, dest, source_ops,
                 byte_ranges, tasks, completed, remote_pos, op_index>>

\* remote_data.seek(SeekFrom::Start(0))
HttpRewind ==
  /\ pc = "fetching"
  /\ awaited = Len(tasks)
  /\ remote_pos' = 0
  /\ pc' = "writing"
  /\ UNCHANGED <<inputVars, a, b, diff, patch, applyVars, byte_ranges, tasks,
                 completed, awaited, remote_data, op_index>>

\* Second pass, one operation.
HttpApplyOp ==
  /\ pc = "writing"
  /\ op_index < Len(diff)
  /\ LET d == diff[op_index + 1] IN
       IF d.op = "Copy"
       THEN /\ dest' = dest \o ReadAt(source, d.offset, d.size)
            /\ source_ops' = source_ops + 1
            /\ UNCHANGED remote_pos
       ELSE LET chunk == ReadAt(remote_data, remote_pos, d.size) IN
            /\ dest' = dest \o chunk
            /\ remote_pos' = remote_pos + Len(chunk)
            /\ UNCHANGED source_ops
  /\ op_index' = op_index + 1
  /\ UNCHANGED <<inputVars, a, b, pc, diff, patch, stream, result, byte_ranges,
                 tasks, completed, awaited, remote_data>>

\* Ok(()) of apply_from_http
HttpReturn ==
  /\ pc = "writing"
  /\ op_index = Len(diff)
  /\ result' = "ok"
  /\ pc' = "pulled"
  /\ UNCHANGED <<inputVars, a, b, diff, patch, stream, dest, source_ops, httpVars>>

Next ==
  \/ CalculateSignatures
  \/ WriteDiffBetween
  \/ Apply
  \/ DiffSignatures
  \/ HttpSpawn
  \/ \E k \in 1..Len(tasks) : HttpRespond(k)
  \/ HttpAwait
  \/ HttpRewind
  \/ HttpApplyOp
  \/ HttpReturn

Spec == Init /\ [][Next]_vars

NextStored ==
  \/ LoadSignature
  \/ WriteDiffBetween
  \/ Apply
  \/ DiffSignatures

SpecStored == InitStored /\ [][NextStored]_vars

NextRoundTrip ==
  \/ WriteSignature
  \/ ReloadSignature

SpecRoundTrip == InitRoundTrip /\ [][NextRoundTrip]_vars

\* ----------------------------------------------------------------- claims
\* The planner has run on (a, b).
Planned == pc \in {"patched", "applied", "planned", "fetching", "writing", "pulled"}

\* The pull path is past its first pass.
Pulling == pc \in {"fetching", "writing", "pulled"} /\ stream = <<>> /\ patch = <<>>

\* Copy{o,s} reads S[o, o+s), Insert{o,s} reads T[o, o+s).
RECURSIVE Execute(_, _, _)
Execute(ops, S, T) ==
  IF ops = <<>> THEN <<>>
  ELSE LET d == Head(ops) IN
    (IF d.op = "Copy" THEN ReadAt(S, d.offset, d.size)
     ELSE ReadAt(T, d.offset, d.size)) \o Execute(Tail(ops), S, T)

HasOp(ops, kind) == \E i \in 1..Len(ops) : ops[i].op = kind /\ ops[i].size > 0

\* C1: for source and target files given by their chunks, executing the
\* operation list of diff_signatures(sig(S), sig(T)) against S yields T, and
\* apply on the patch written from it succeeds with dest = T.
C1_Reconstruction ==
  /\ (Planned /\ stored = <<>>) => Execute(diff, source, target) = target
  /\ (pc = "applied" /\ stream = patch) => (result = "ok" /\ dest = target)

C1_Witness ==
  /\ pc = "applied" /\ stream = patch /\ result = "ok" /\ dest = target
  /\ Len(diff) = 3 /\ HasOp(diff, "Copy") /\ HasOp(diff, "Insert")
  /\ \E i \in 1..Len(diff) : diff[i].op = "Copy" /\ diff[i].offset > 0

\* C2 (as stated): diffing a file against itself gives the single operation
\* Copy{0, |F|}, also when a chunk occurs more than once in the file.
C2_Original ==
  (Planned /\ stored = <<>> /\ srcChunks = tgtChunks)
    => diff = <<Op("Copy", 0, Len(target))>>

DistinctChunks(chunks) ==
  \A i, j \in 1..Len(chunks) : chunks[i] = chunks[j] => i = j

\* C2 (amended): diffing a file whose chunks are pairwise different against
\* itself gives the single operation Copy{0, |F|}.
C2_IdentityDistinct ==
  (Planned /\ stored = <<>> /\ srcChunks = tgtChunks /\ DistinctChunks(tgtChunks))
    => diff = <<Op("Copy", 0, Len(target))>>

C2_Witness ==
  /\ Planned /\ srcChunks = tgtChunks /\ DistinctChunks(tgtChunks)
  /\ Len(tgtChunks) = 2
  /\ diff = <<Op("Copy", 0, Len(target))>>

\* C3: when the target signature has no chunks the operation list is empty
\* and the patch is just the version byte.
C3_EmptyTarget ==
  (Planned /\ b.chunks = <<>>)
    => (diff = <<>> /\ (pc = "patched" => patch = <<a.version>>))

\* C4: a target chunk is taken as found only if a source chunk has the same
\* hash and the same length, and what is added to a Copy run is the target
\* chunk's length: the operations cover Len(target) bytes and there is no
\* Copy when no source chunk equals a target chunk.
SumSizes(ops) == SumLen([i \in 1..Len(ops) |-> ops[i].size])

C4_HashAndLength ==
  Planned =>
    /\ \A j \in 1..Len(b.chunks) :
         HasKey(a, b.chunks[j].hash) =>
           /\ \E i \in 1..Len(a.chunks) : ChunkEq(a.chunks[i], b.chunks[j])
           /\ Lookup(a, b.chunks[j].hash).length = b.chunks[j].length
    /\ SumSizes(diff) = Len(target)
    /\ (~ \E i \in 1..Len(a.chunks), j \in 1..Len(b.chunks) :
            ChunkEq(a.chunks[i], b.chunks[j]))
         => ~ HasOp(diff, "Copy")

\* C5: a patch stream whose first byte is not VERSION makes apply return the
\* version mismatch with nothing written to dest and the source untouched.
C5_VersionGate ==
  (pc = "applied" /\ stream # <<>> /\ stream[1] # VERSION)
    => (result = "version_mismatch" /\ dest = <<>> /\ source_ops = 0)

C5_Witness ==
  /\ pc = "applied" /\ Len(stream) > 1 /\ stream[1] # VERSION
  /\ result = "version_mismatch" /\ dest = <<>>
  /\ HasOp(diff, "Copy") /\ HasOp(diff, "Insert")

\* The patch format: after pos bytes the stream is made of whole records.
RECURSIVE WholeRecords(_, _)
WholeRecords(p, pos) ==
  IF pos = Len(p) THEN TRUE
  ELSE IF p[pos + 1] = 0
    THEN pos + 17 <= Len(p) /\ WholeRecords(p, pos + 17)
  ELSE IF p[pos + 1] = 1
    THEN /\ pos + 9 <= Len(p)
         /\ LET size == from_be_bytes(SubSeq(p, pos + 2, pos + 9)) IN
              pos + 9 + size <= Len(p) /\ WholeRecords(p, pos + 9 + size)
  ELSE FALSE

\* C6: apply returns Ok only when the end of the patch stream falls on a
\* record boundary; a stream that ends inside a record is an error.
C6_TruncationIsError ==
  (pc = "applied" /\ result = "ok") => WholeRecords(stream, 1)

\* Number of Insert operations among the first n operations.
InsertsIn(ops, n) == Cardinality({i \in 1..n : ops[i].op = "Insert"})

\* C7: when a range request is answered with a status other than 206 or
\* 200, apply_from_http returns an error and the body of that response is
\* not streamed into dest.
C7_BadStatusIsError ==
  Pulling =>
    \A k \in 1..Len(tasks) :
      (tasks[k].state = "done" /\ tasks[k].status \notin {206, 200, 0}) =>
        /\ pc = "pulled" => result # "ok"
        /\ InsertsIn(diff, op_index) < k

RECURSIVE Bodies(_, _)
Bodies(ts, n) ==
  IF n = 0 THEN <<>> ELSE Bodies(ts, n - 1) \o ts[n].body

\* C8: whatever the order in which the requests complete, the scratch store
\* holds the bodies of the awaited requests in the order of the Insert
\* operations, and nothing is written to dest before all bodies are stored.
C8_ScratchOrder ==
  Pulling =>
    /\ remote_data = Bodies(tasks, awaited)
    /\ \A k \in 1..awaited : tasks[k].state = "done"
    /\ (dest # <<>> \/ op_index > 0) =>
         (awaited = Len(tasks) /\ remote_data = Bodies(tasks, Len(tasks)))

C8_Witness ==
  /\ pc = "pulled" /\ result = "ok"
  /\ completed = <<2, 1>>
  /\ tasks[1].body # tasks[2].body
  /\ remote_data = tasks[1].body \o tasks[2].body
  /\ dest # <<>>

InsertOps(ops) == SelectSeq(ops, LAMBDA d : d.op = "Insert")

AllPartial == \A k \in 1..Len(tasks) : tasks[k].state = "done" /\ tasks[k].status = 206

\* C9: with an origin that answers every range with exactly those bytes of
\* the target, apply_from_http writes to dest what apply writes for the
\* patch of write_diff_between, namely the target, and it requests one range
\* (offset, offset+size-1) per Insert operation.
C9_PullEqualsLocal ==
  /\ Pulling =>
       /\ Len(byte_ranges) = Len(InsertOps(diff))
       /\ \A k \in 1..Len(byte_ranges) :
            byte_ranges[k] = <<InsertOps(diff)[k].offset,
                               InsertOps(diff)[k].offset + InsertOps(diff)[k].size - 1>>
  /\ (Pulling /\ pc = "pulled" /\ result = "ok" /\ AllPartial) =>
       /\ dest = target
       /\ apply(write_diff_between(a, b, target), source)
            = ApplyResult("ok", dest, source_ops)

C9_Witness ==
  /\ Pulling /\ pc = "pulled" /\ result = "ok" /\ AllPartial
  /\ Len(tasks) = 2 /\ HasOp(diff, "Copy")
  /\ dest = target

\* C10: Signature::load does not return a signature for stored bytes whose
\* first byte is not VERSION.
C10_LoadRejectsVersion ==
  (pc # "stored" /\ stored # <<>> /\ stored[1] # VERSION)
    => (pc = "done" /\ result # "none")

\* C11: Signature::load of the bytes written by Signature::write returns the
\* written signature: same version, sizes and chunks, in order, with the
\* same hash, offset and length.
C11_WriteLoadRoundTrip ==
  pc = "reloaded" =>
    /\ result = "ok"
    /\ b.version = a.version
    /\ b.min_size = a.min_size /\ b.avg_size = a.avg_size /\ b.max_size = a.max_size
    /\ Len(b.chunks) = Len(a.chunks)
    /\ \A i \in 1..Len(a.chunks) :
         /\ b.chunks[i].hash = a.chunks[i].hash
         /\ b.chunks[i].offset = a.chunks[i].offset
         /\ b.chunks[i].length = a.chunks[i].length

C11_Witness ==
  /\ pc = "reloaded" /\ result = "ok" /\ b = a
  /\ Len(a.chunks) = 1
  /\ a.chunks[1].hash = 65539 /\ a.chunks[1].offset = 65536 /\ a.chunks[1].length = 256

\* The j-th target chunk is found in the source index, and the chunk found.
Found(j) == HasKey(a, b.chunks[j].hash)

SourceChunk(j) == Lookup(a, b.chunks[j].hash)

\* The j-th target chunk cannot be coalesced with the chunk before it.
StartsRun(j) ==
  \/ j = 1
  \/ Found(j) # Found(j - 1)
  \/ /\ Found(j)
     /\ SourceChunk(j).offset # SourceChunk(j - 1).offset + SourceChunk(j - 1).length
  \/ /\ ~ Found(j)
     /\ b.chunks[j].offset # b.chunks[j - 1].offset + b.chunks[j - 1].length

RunStarts == SelectSeq([j \in 1..Len(b.chunks) |-> j], StartsRun)

\* C12: the operation list is maximally coalesced: no two consecutive
\* Inserts, no two consecutive Copies where the second starts where the first
\* ends, and every operation is a run of target chunks, a Copy run starting
\* at the offset of the first occurrence in the source of its first chunk.
C12_Coalesced ==
  Planned =>
    /\ \A i \in 1..(Len(diff) - 1) :
         ~ (diff[i].op = "Insert" /\ diff[i + 1].op = "Insert")
    /\ \A i \in 1..(Len(diff) - 1) :
         ~ (/\ diff[i].op = "Copy" /\ diff[i + 1].op = "Copy"
            /\ diff[i + 1].offset = diff[i].offset + diff[i].size)
    /\ Len(diff) = Len(RunStarts)
    /\ \A k \in 1..Len(diff) :
         diff[k].op = "Copy" =>
           /\ Found(RunStarts[k])
           /\ diff[k].offset = SourceChunk(RunStarts[k]).offset

\* C13: every patch written by write_diff_between begins with VERSION and
\* passes the version gate of apply, also when the source signature was
\* loaded from stored bytes.
C13_PatchVersion ==
  /\ pc \in {"patched", "applied"} => (patch # <<>> /\ patch[1] = VERSION)
  /\ (pc = "applied" /\ stream = patch) => result # "version_mismatch"

====
